---- MODULE Spec2Model ----
(***************************************************************************)
(* Model of the schedule engine of app.py: the catalog df_courses, the     *)
(* session schedule st.session_state.schedule, the conflict detector       *)
(* check_for_conflict and the two button handlers add_section_to_schedule  *)
(* and remove_section_from_schedule.                                       *)
(***************************************************************************)
EXTENDS Integers, Sequences, FiniteSets, TLC

\* df_courses: the catalog, one record per CSV row, fixed after loading.
\* schedule:   st.session_state.schedule, the list of accepted rows.
\* outcome:    the last handler call and the message it showed.
\* before:     the schedule that the last handler call found on entry.
VARIABLES df_courses, schedule, before, outcome

vars == <<df_courses, schedule, before, outcome>>

\* ------------------------------------------------------------------------
\* Bounds and the universe the catalog is drawn from
\* ------------------------------------------------------------------------

\* Times are the integers 1..MaxTime (Start_Time_24hr / End_Time_24hr).
MaxTime == 3

Times == 1..MaxTime

\* A meeting interval of the catalog: start before end.
TimePairs == {p \in Times \X Times : p[1] < p[2]}

\* The loader only casts the two time columns to int, so a row whose end
\* is not after its start can be loaded as well.
EmptyInterval == <<2, 2>>

LoadedTimePairs == TimePairs \cup {EmptyInterval}

\* Days_List values after ast.literal_eval: a list of day tokens, maybe empty.
SingleDayLists == {<<"M">>, <<"W">>}

DayLists == SingleDayLists \cup {<< >>, <<"M", "W">>}

\* The two catalogued logical sections and one key the catalog does not hold.
KeyA == <<"CS101", "A">>

KeyB == <<"CS101", "B">>

KeyMissing == <<"MATH203", "A">>

Keys == {KeyA, KeyB, KeyMissing}

\* The 'Start Time' / 'End Time' display column of a row: the clock string
\* that the row's numeric time was derived from.
Display(t) == [clock |-> t]

\* One row of transformed_schedule_data.csv as load_and_transform_data types it.
Row(key, days, p) ==
    [Course_Code |-> key[1], Section |-> key[2], Days_List |-> days,
     Start_Time_24hr |-> p[1], End_Time_24hr |-> p[2],
     Start_Time |-> Display(p[1]), End_Time |-> Display(p[2])]

\* Catalogs of three rows (section A meets twice, B once), any day list and
\* any loaded interval.
Catalogs3 ==
    {<<Row(KeyA, d1, p1), Row(KeyA, d2, p2), Row(KeyB, d3, p3)>> :
        <<d1, d2, d3>> \in DayLists \X DayLists \X DayLists,
        <<p1, p2, p3>> \in LoadedTimePairs \X LoadedTimePairs \X LoadedTimePairs}

\* Catalogs of four rows (sections A and B meet twice each): the rows of A on
\* Monday or on Monday and Wednesday, the rows of B on a single day.
Catalogs4 ==
    {<<Row(KeyA, a[1], p[1]), Row(KeyA, a[2], p[2]),
       Row(KeyB, b[1], p[3]), Row(KeyB, b[2], p[4])>> :
        a \in [1..2 -> {<<"M">>, <<"M", "W">>}],
        b \in [1..2 -> SingleDayLists],
        p \in [1..4 -> TimePairs]}

Catalogs == Catalogs3 \cup Catalogs4

\* ------------------------------------------------------------------------
\* Core logic functions
\* ------------------------------------------------------------------------

Range(s) == {s[i] : i \in 1..Len(s)}

None == [none |-> TRUE]

find_common_elements(list_a, list_b) == Range(list_a) \cap Range(list_b)

\* Variant: the boundary counted as overlap (<= for <).
TimeConflictClosed(new_start, new_end, existing_start, existing_end) ==
    new_start <= existing_end /\ existing_start <= new_end

\* Variant: the second comparison made against new_start instead of new_end.
TimeConflictOneSided(new_start, new_end, existing_start, existing_end) ==
    new_start < existing_end /\ existing_start < new_start

\* Time Conflict Formula: A_start < B_end AND B_start < A_end
TimeConflict(new_start, new_end, existing_start, existing_end) ==
    new_start < existing_end /\ existing_start < new_end

\* Variant: the time range taken from the existing section.
clash_details_existing(new_section, existing_section, common_days) ==
    [New_Section |-> <<new_section.Course_Code, new_section.Section>>,
     Clashing_Section |-> <<existing_section.Course_Code, existing_section.Section>>,
     Conflict_Days |-> common_days,
     Time_Range |-> <<existing_section.Start_Time, existing_section.End_Time>>]

clash_details(new_section, existing_section, common_days) ==
    [New_Section |-> <<new_section.Course_Code, new_section.Section>>,
     Clashing_Section |-> <<existing_section.Course_Code, existing_section.Section>>,
     Conflict_Days |-> common_days,
     Time_Range |-> <<new_section.Start_Time, new_section.End_Time>>]

\* The for-loop of check_for_conflict from schedule position i on.
RECURSIVE CheckFrom(_, _, _)
CheckFrom(new_section, current_schedule_list, i) ==
    IF i > Len(current_schedule_list)
    THEN [is_conflict |-> FALSE, details |-> None]
    ELSE LET existing_section == current_schedule_list[i]
             common_days == find_common_elements(new_section.Days_List,
                                                 existing_section.Days_List)
         IN  IF common_days # {}
                /\ TimeConflict(new_section.Start_Time_24hr, new_section.End_Time_24hr,
                                existing_section.Start_Time_24hr,
                                existing_section.End_Time_24hr)
             THEN [is_conflict |-> TRUE,
                   details |-> clash_details(new_section, existing_section, common_days)]
             ELSE CheckFrom(new_section, current_schedule_list, i + 1)

\* Variant: the loop without its early return, so the last hit wins.
RECURSIVE CheckLastFrom(_, _, _)
CheckLastFrom(new_section, current_schedule_list, i) ==
    IF i < 1
    THEN [is_conflict |-> FALSE, details |-> None]
    ELSE LET hit == CheckFrom(new_section, <<current_schedule_list[i]>>, 1)
         IN  IF hit.is_conflict THEN hit
             ELSE CheckLastFrom(new_section, current_schedule_list, i - 1)

check_for_conflict_last(new_section, current_schedule_list) ==
    CheckLastFrom(new_section, current_schedule_list, Len(current_schedule_list))

\* Variant: only the first schedule entry is compared.
check_for_conflict_first_entry(new_section, current_schedule_list) ==
    IF current_schedule_list = << >>
    THEN [is_conflict |-> FALSE, details |-> None]
    ELSE CheckFrom(new_section, <<current_schedule_list[1]>>, 1)

check_for_conflict(new_section, current_schedule_list) ==
    CheckFrom(new_section, current_schedule_list, 1)

\* ------------------------------------------------------------------------
\* Button handlers
\* ------------------------------------------------------------------------

MatchesKey(s, course_code, section) ==
    s.Course_Code = course_code /\ s.Section = section

\* df_courses[(Course Code == course_code) & (Section == section)]
section_rows(df, course_code, section) ==
    SelectSeq(df, LAMBDA r : MatchesKey(r, course_code, section))

\* Variant: only the first row of the section is checked (the first-day
\* simplification of combine_single_day_rows).
ScanRowsFirstOnly(rows, current_schedule_list, i) ==
    IF i > Len(rows)
    THEN [is_conflict |-> FALSE, details |-> None]
    ELSE CheckFrom(rows[i], current_schedule_list, 1)

\* The loop over section_rows.iterrows() with its break, from row i on.
RECURSIVE ScanRows(_, _, _)
ScanRows(rows, current_schedule_list, i) ==
    IF i > Len(rows)
    THEN [is_conflict |-> FALSE, details |-> None]
    ELSE LET r == check_for_conflict(rows[i], current_schedule_list)
         IN  IF r.is_conflict THEN r
             ELSE ScanRows(rows, current_schedule_list, i + 1)

existing_check(current_schedule_list, course_code, section) ==
    \E i \in 1..Len(current_schedule_list) :
        MatchesKey(current_schedule_list[i], course_code, section)

\* Variant: the rows are appended although a clash was reported.
AddResultAppendOnClash(df, current_schedule_list, course_code, section) ==
    LET rows == SelectSeq(df, LAMBDA r : r.Course_Code = course_code
                                         /\ r.Section = section)
        hits == {i \in 1..Len(rows) :
                    CheckFrom(rows[i], current_schedule_list, 1).is_conflict}
        first == CHOOSE i \in hits : \A j \in hits : i <= j
    IN  IF rows = << >>
        THEN [kind |-> "SectionNotFound", details |-> None,
              schedule |-> current_schedule_list]
        ELSE IF hits # {}
        THEN [kind |-> "Rejected",
              details |-> CheckFrom(rows[first], current_schedule_list, 1).details,
              schedule |-> current_schedule_list \o rows]
        ELSE IF \A i \in 1..Len(current_schedule_list) :
                    ~(current_schedule_list[i].Course_Code = course_code
                      /\ current_schedule_list[i].Section = section)
        THEN [kind |-> "Added", details |-> None,
              schedule |-> current_schedule_list \o rows]
        ELSE [kind |-> "AlreadyAdded", details |-> None,
              schedule |-> current_schedule_list]

\* What add_section_to_schedule reports and the schedule it leaves.
AddResult(df, current_schedule_list, course_code, section) ==
    LET rows == section_rows(df, course_code, section)
        scan == ScanRows(rows, current_schedule_list, 1)
    IN  IF rows = << >>
        THEN [kind |-> "SectionNotFound", details |-> None,
              schedule |-> current_schedule_list]
        ELSE IF scan.is_conflict
        THEN [kind |-> "Rejected", details |-> scan.details,
              schedule |-> current_schedule_list]
        ELSE IF ~existing_check(current_schedule_list, course_code, section)
        THEN [kind |-> "Added", details |-> None,
              schedule |-> current_schedule_list \o rows]
        ELSE [kind |-> "AlreadyAdded", details |-> None,
              schedule |-> current_schedule_list]

\* Variant: rows are matched on the course code alone.
RemoveResultByCourse(current_schedule_list, course_code, section) ==
    SelectSeq(current_schedule_list, LAMBDA s : s.Course_Code # course_code)

\* Variant: only the first matching row is dropped.
RemoveResultFirstOnly(current_schedule_list, course_code, section) ==
    LET hits == {i \in 1..Len(current_schedule_list) :
                    current_schedule_list[i].Course_Code = course_code
                    /\ current_schedule_list[i].Section = section}
    IN  IF hits = {} THEN current_schedule_list
        ELSE LET first == CHOOSE i \in hits : \A j \in hits : i <= j
             IN  SubSeq(current_schedule_list, 1, first - 1)
                 \o SubSeq(current_schedule_list, first + 1,
                           Len(current_schedule_list))

\* The list comprehension of remove_section_from_schedule.
RemoveResult(current_schedule_list, course_code, section) ==
    SelectSeq(current_schedule_list, LAMBDA s : ~MatchesKey(s, course_code, section))

\* The last handler call and what it showed to the user.
Outcome(op, key, kind, details) ==
    [op |-> op, key |-> key, kind |-> kind, details |-> details]

Init ==
    /\ df_courses \in Catalogs
    /\ schedule = << >>
    /\ before = << >>
    /\ outcome = Outcome("none", KeyMissing, "None", None)

add_section_to_schedule(course_code, section) ==
    LET r == AddResult(df_courses, schedule, course_code, section)
    IN  /\ before' = schedule
        /\ schedule' = r.schedule
        /\ outcome' = Outcome("add", <<course_code, section>>, r.kind, r.details)
        /\ UNCHANGED df_courses

\* The handler returns nothing and shows no message.
remove_section_from_schedule(course_code, section) ==
    /\ before' = schedule
    /\ schedule' = RemoveResult(schedule, course_code, section)
    /\ outcome' = Outcome("remove", <<course_code, section>>, "None", None)
    /\ UNCHANGED df_courses

AddSection == \E k \in Keys : add_section_to_schedule(k[1], k[2])

RemoveSection == \E k \in Keys : remove_section_from_schedule(k[1], k[2])

Next == AddSection \/ RemoveSection

Spec == Init /\ [][Next]_vars

\* ------------------------------------------------------------------------
\* Vocabulary of the properties
\* ------------------------------------------------------------------------

KeyOf(s) == <<s.Course_Code, s.Section>>

\* The entries of a schedule that belong to key k, in order, and the others.
EntriesOf(sched, k) == SelectSeq(sched, LAMBDA s : KeyOf(s) = k)

EntriesNotOf(sched, k) == SelectSeq(sched, LAMBDA s : KeyOf(s) # k)

Present(sched, k) == EntriesOf(sched, k) # << >>

Absent(sched, k) == EntriesOf(sched, k) = << >>

CatalogRows(k) == SelectSeq(df_courses, LAMBDA r : KeyOf(r) = k)

SharedDays(a, b) ==
    {d \in {"M", "W"} : (\E i \in 1..Len(a.Days_List) : a.Days_List[i] = d)
                        /\ (\E j \in 1..Len(b.Days_List) : b.Days_List[j] = d)}

\* Two meetings share a day and their half-open intervals intersect.
Overlaps(a, b) ==
    /\ SharedDays(a, b) # {}
    /\ a.Start_Time_24hr < b.End_Time_24hr
    /\ b.Start_Time_24hr < a.End_Time_24hr

Max(x, y) == IF x >= y THEN x ELSE y

Min(x, y) == IF x <= y THEN x ELSE y

Least(S) == CHOOSE x \in S : \A y \in S : x <= y

\* The (component row, schedule entry) index pairs that clash.
ClashPairs(rows, sched) ==
    {p \in (1..Len(rows)) \X (1..Len(sched)) : Overlaps(rows[p[1]], sched[p[2]])}

\* ------------------------------------------------------------------------
\* C1
\* ------------------------------------------------------------------------

\* C1: in every reachable state no two schedule entries of different logical
\* sections share a day of Days_List and overlap in time.
C1_NoCrossSectionOverlap ==
    \A i, j \in 1..Len(schedule) :
        KeyOf(schedule[i]) # KeyOf(schedule[j])
            => ~Overlaps(schedule[i], schedule[j])

\* Two different sections that share a day sit in the schedule together, the
\* second one accepted by an add that scanned the first.
C1_Witness ==
    /\ outcome.op = "add" /\ outcome.kind = "Added" /\ before # << >>
    /\ \E i, j \in 1..Len(schedule) :
          /\ KeyOf(schedule[i]) # KeyOf(schedule[j])
          /\ SharedDays(schedule[i], schedule[j]) # {}

\* ------------------------------------------------------------------------
\* C2
\* ------------------------------------------------------------------------

ProperRows(k) ==
    /\ CatalogRows(k) # << >>
    /\ \A i \in 1..Len(CatalogRows(k)) :
          /\ CatalogRows(k)[i].Start_Time_24hr < CatalogRows(k)[i].End_Time_24hr
          /\ CatalogRows(k)[i].Days_List # << >>

\* C2: when an add of section S (rows with start < end and a non-empty day
\* list) was Added, the next add of S reports AlreadyAdded and the schedule
\* holds exactly one copy of S's meetings.
C2_DuplicateAddIsAlreadyAdded ==
    [][ ( /\ outcome.op = "add" /\ outcome.kind = "Added"
          /\ ProperRows(outcome.key)
          /\ outcome'.op = "add" /\ outcome'.key = outcome.key )
        => ( /\ outcome'.kind = "AlreadyAdded"
             /\ EntriesOf(schedule', outcome.key) = CatalogRows(outcome.key) )
      ]_vars

\* ------------------------------------------------------------------------
\* C3
\* ------------------------------------------------------------------------

\* C3: an add whose outcome is not Added (Rejected, AlreadyAdded, section not
\* found) leaves the schedule as it found it, same entries in the same order.
C3_FailedAddKeepsSchedule ==
    (outcome.op = "add" /\ outcome.kind # "Added") => schedule = before

\* A rejected add on a non-empty schedule.
C3_Witness ==
    /\ outcome.op = "add" /\ outcome.kind = "Rejected"
    /\ before # << >>

\* ------------------------------------------------------------------------
\* C4
\* ------------------------------------------------------------------------

\* add(S); remove(S); remove(S) from a schedule without S gives it back.
AddRemoveRemoveRestores ==
    \A k \in Keys :
        Absent(schedule, k) =>
            RemoveResult(RemoveResult(
                AddResult(df_courses, schedule, k[1], k[2]).schedule,
                k[1], k[2]), k[1], k[2]) = schedule

C5_AllOrNothing ==
    \A k \in Keys :
        \/ EntriesOf(schedule, k) = << >>
        \/ EntriesOf(schedule, k) = CatalogRows(k)

\* A section of two meetings was removed while the other section stays.
C5_Witness ==
    /\ outcome.op = "remove"
    /\ Len(EntriesOf(before, outcome.key)) = 2
    /\ Absent(schedule, outcome.key)
    /\ schedule # << >>

\* ------------------------------------------------------------------------
\* C6
\* ------------------------------------------------------------------------

\* C6: an add of an Absent catalogued section is Added, with all its rows
\* appended in catalog order, exactly when no component row overlaps any
\* schedule entry, and Rejected without change otherwise.
C6_AddTestsEveryComponent ==
    ( /\ outcome.op = "add"
      /\ Absent(before, outcome.key)
      /\ CatalogRows(outcome.key) # << >> )
    => IF ClashPairs(CatalogRows(outcome.key), before) = {}
       THEN outcome.kind = "Added"
            /\ schedule = before \o CatalogRows(outcome.key)
       ELSE outcome.kind = "Rejected" /\ schedule = before

\* Rejected although the first component is free of conflicts, and against
\* a schedule entry that is not the first one.
C6_Witness ==
    /\ outcome.op = "add" /\ outcome.kind = "Rejected"
    /\ Absent(before, outcome.key)
    /\ \A j \in 1..Len(before) : ~Overlaps(CatalogRows(outcome.key)[1], before[j])
    /\ \A i \in 1..Len(CatalogRows(outcome.key)) :
          ~Overlaps(CatalogRows(outcome.key)[i], before[1])

\* ------------------------------------------------------------------------
\* C7
\* ------------------------------------------------------------------------

\* C7: for two meetings with start < end that share a day, check_for_conflict
\* reports no conflict when one ends where the other starts, in either role,
\* and reports a conflict when A starts no later than B and ends after B's
\* start.
C7_HalfOpenBoundary ==
    \A i, j \in 1..Len(df_courses) :
        LET a == df_courses[i]
            b == df_courses[j]
        IN  ( /\ SharedDays(a, b) # {}
              /\ a.Start_Time_24hr < a.End_Time_24hr
              /\ b.Start_Time_24hr < b.End_Time_24hr )
            => /\ a.End_Time_24hr = b.Start_Time_24hr
                  => /\ ~check_for_conflict(a, <<b>>).is_conflict
                     /\ ~check_for_conflict(b, <<a>>).is_conflict
               /\ ( a.Start_Time_24hr <= b.Start_Time_24hr
                    /\ a.End_Time_24hr > b.Start_Time_24hr )
                  => /\ check_for_conflict(a, <<b>>).is_conflict
                     /\ check_for_conflict(b, <<a>>).is_conflict

\* A back-to-back section was accepted next to the one it touches, and the
\* catalog also holds a pair that overlaps by the smallest amount.
C7_Witness ==
    /\ outcome.op = "add" /\ outcome.kind = "Added"
    /\ \E i, j \in 1..Len(schedule) :
          /\ KeyOf(schedule[i]) # outcome.key
          /\ KeyOf(schedule[j]) = outcome.key
          /\ SharedDays(schedule[i], schedule[j]) # {}
          /\ schedule[i].End_Time_24hr = schedule[j].Start_Time_24hr
    /\ \E i, j \in 1..Len(df_courses) :
          /\ SharedDays(df_courses[i], df_courses[j]) # {}
          /\ df_courses[i].Start_Time_24hr <= df_courses[j].Start_Time_24hr
          /\ df_courses[i].End_Time_24hr = df_courses[j].Start_Time_24hr + 1

\* ------------------------------------------------------------------------
\* C8
\* ------------------------------------------------------------------------

\* The clash details for component row r against schedule entry e with the
\* given time range.
CarriesClash(r, e, range) ==
    /\ Overlaps(r, e)
    /\ outcome.details.Clashing_Section = KeyOf(e)
    /\ outcome.details.Conflict_Days = SharedDays(r, e)
    /\ outcome.details.Time_Range = range

\* C8 as stated: every Rejected outcome carries the key of a schedule entry
\* that overlaps the candidate, exactly the common days, and the interval in
\* which the two meetings overlap (max of the starts to min of the ends).
C8_RejectedCarriesOverlapRange ==
    (outcome.op = "add" /\ outcome.kind = "Rejected") =>
        \E i \in 1..Len(CatalogRows(outcome.key)), j \in 1..Len(schedule) :
            LET r == CatalogRows(outcome.key)[i]
                e == schedule[j]
            IN  CarriesClash(r, e,
                    <<Display(Max(r.Start_Time_24hr, e.Start_Time_24hr)),
                      Display(Min(r.End_Time_24hr, e.End_Time_24hr))>>)

\* C8 amended: every Rejected outcome carries the key of a schedule entry
\* that overlaps the candidate, exactly the common days, and as time range
\* the candidate meeting's own Start Time - End Time.
C8_RejectedCarriesCandidateRange ==
    (outcome.op = "add" /\ outcome.kind = "Rejected") =>
        \E i \in 1..Len(CatalogRows(outcome.key)), j \in 1..Len(schedule) :
            LET r == CatalogRows(outcome.key)[i]
                e == schedule[j]
            IN  CarriesClash(r, e, <<r.Start_Time, r.End_Time>>)

\* A rejection by another section, on fewer days than the candidate meets
\* and with a time range that differs from the clashing meeting's.
C8_Witness ==
    /\ outcome.op = "add" /\ outcome.kind = "Rejected"
    /\ outcome.details.Clashing_Section # outcome.key
    /\ \E i \in 1..Len(CatalogRows(outcome.key)), j \in 1..Len(schedule) :
          LET r == CatalogRows(outcome.key)[i]
              e == schedule[j]
          IN  /\ CarriesClash(r, e, <<r.Start_Time, r.End_Time>>)
              /\ <<r.Start_Time, r.End_Time>> # <<e.Start_Time, e.End_Time>>
              /\ Cardinality(SharedDays(r, e)) < Len(r.Days_List)

\* ------------------------------------------------------------------------
\* C9
\* ------------------------------------------------------------------------

AddTo(sched, k) == AddResult(df_courses, sched, k[1], k[2])

RejectedBy(sched, k, clash) ==
    /\ AddTo(sched, k).kind = "Rejected"
    /\ AddTo(sched, k).details.Clashing_Section = clash

\* C9: for a schedule that can take either of two distinct catalogued
\* sections, adding the second after the first is Rejected with the first as
\* the clash if and only if the same holds in the opposite order.
C9_ConflictSymmetric ==
    \A a, b \in Keys :
        ( /\ a # b
          /\ AddTo(schedule, a).kind = "Added"
          /\ AddTo(schedule, b).kind = "Added" )
        => ( RejectedBy(AddTo(schedule, a).schedule, b, a)
             <=> RejectedBy(AddTo(schedule, b).schedule, a, b) )

\* A section was rejected with another section as the clash, and the
\* schedule without that other section takes either of the two.
C9_Witness ==
    /\ outcome.op = "add" /\ outcome.kind = "Rejected"
    /\ outcome.details.Clashing_Section # outcome.key
    /\ LET a == outcome.details.Clashing_Section
           b == outcome.key
           rest == EntriesNotOf(schedule, a)
       IN  /\ AddTo(rest, a).kind = "Added"
           /\ AddTo(rest, b).kind = "Added"
           /\ RejectedBy(AddTo(rest, b).schedule, a, b)

\* ------------------------------------------------------------------------
\* C10
\* ------------------------------------------------------------------------

\* The first hit of the nested scan: the earliest clashing component row and
\* the earliest schedule entry it clashes with.
FirstClash(rows, sched) ==
    LET i == Least({p[1] : p \in ClashPairs(rows, sched)})
        j == Least({p[2] : p \in {q \in ClashPairs(rows, sched) : q[1] = i}})
    IN  <<i, j>>

DetailsFor(r, e) ==
    [New_Section |-> KeyOf(r), Clashing_Section |-> KeyOf(e),
     Conflict_Days |-> SharedDays(r, e),
     Time_Range |-> <<r.Start_Time, r.End_Time>>]

\* C10: the reported clash is that of the first hit of the nested scan, the
\* earliest component row that clashes with anything paired with the earliest
\* schedule entry it clashes with, and nothing else.
C10_FirstHitReported ==
    (outcome.op = "add" /\ outcome.kind = "Rejected") =>
        LET rows == CatalogRows(outcome.key)
            hit == FirstClash(rows, schedule)
        IN  /\ ClashPairs(rows, schedule) # {}
            /\ outcome.details = DetailsFor(rows[hit[1]], schedule[hit[2]])

\* A rejection with several clashing pairs: a later component row and a later
\* schedule entry clash too, and each would give other details.
C10_Witness ==
    /\ outcome.op = "add" /\ outcome.kind = "Rejected"
    /\ Absent(before, outcome.key)
    /\ LET rows == CatalogRows(outcome.key)
           hit == FirstClash(rows, schedule)
       IN  /\ \E p \in ClashPairs(rows, schedule) :
                 /\ p[1] > hit[1]
                 /\ DetailsFor(rows[p[1]], schedule[p[2]]) # outcome.details
           /\ \E p \in ClashPairs(rows, schedule) :
                 /\ p[1] = hit[1] /\ p[2] > hit[2]
                 /\ DetailsFor(rows[p[1]], schedule[p[2]]) # outcome.details

====
